---- MODULE Spec2Model ----
(***************************************************************************)
(* Edition acquisition of the PageSuite e-paper scraper                    *)
(* (backend/scraper.py): the edition index and its cache, the probe-mode   *)
(* ("replica") fetcher, the archive-mode ("published") fetcher and the     *)
(* orchestrator get_page_images, over an on-disk edition directory.        *)
(*                                                                         *)
(* Python values are modelled as follows.  A dict is a record, and         *)
(* dict.get(key, default) is Get.  None is the empty tuple and a value     *)
(* that may be None is wrapped as a one-element tuple (None / Some).  A    *)
(* date string is the tuple of its ten characters, a file or document name *)
(* is the tuple of its parts (directories, stem, extensions).              *)
(***************************************************************************)
EXTENDS Integers, Sequences, FiniteSets, TLC

\* ------------------------------------------------------------------ bounds
\* Longest edition list the edition-list endpoint serves.
MaxIndexEditions == 2
\* Most real pages the image endpoint holds for one edition.
MaxPages == 2
\* Longest pages array of an archive-mode manifest.
MaxManifest == 2
\* Most entries of an archive.
MaxArchive == 2

\* ------------------------------------------------------- program constants
PLACEHOLDER_MAX_BYTES == 15000

\* --------------------------------------------------------- Python helpers
None == <<>>
Some(x) == <<x>>

\* dict.get(key, default)
Get(rec, key, default) == IF key \in DOMAIN rec THEN rec[key] ELSE default

\* s[:n]
Take(s, n) == SubSeq(s, 1, IF Len(s) < n THEN Len(s) ELSE n)

\* The dates get_page_images is asked for, and the dates edition lists hold.
Dates == {1}
ListDates == {1, 2}

\* date.strftime("%Y-%m-%d"): the ten characters "2026-01-2d" (45 is "-").
strftime(d) == <<2, 0, 2, 6, 45, 0, 1, 45, 2, d>>

\* The time part of an ISO-8601 publishDate, "T00" (84 is "T").
TimePart == <<84, 0, 0>>

\* --------------------------------------------------------- edition handles
\* Archive-mode edition handles as published.json carries them: with both
\* URLs, without an editionLink, without a zip URL.
FullHandle(n) == [zip |-> "zip_url", editionLink |-> "link_url", name |-> n]
NoLinkHandle(n) == [zip |-> "zip_url", name |-> n]
NoZipHandle(n) == [editionLink |-> "link_url", name |-> n]

\* Records of published.json the acquisition runs draw from: the asked date
\* with each kind of handle, and another date.
PublishedRecords ==
    {[date |-> strftime(1), editions |-> <<h>>] :
        h \in {FullHandle("A"), NoLinkHandle("A"), NoZipHandle("A")}}
    \cup {[date |-> strftime(2), editions |-> <<FullHandle("B")>>]}

\* Raw records of the replica editions endpoint the acquisition runs draw
\* from: the asked date with and without an editionGuid, and another date.
ReplicaRecords ==
    {[publishDate |-> strftime(1) \o TimePart, editionGuid |-> g, name |-> "A"] :
        g \in {"guid", ""}}
    \cup {[publishDate |-> strftime(2) \o TimePart, editionGuid |-> "guid",
           name |-> "B"]}

\* Records the edition index is checked on: a date record without editions,
\* with one edition, with two, and a record of another date ...
PublishedIndexRecords ==
    {[date |-> strftime(1)],
     [date |-> strftime(1), editions |-> <<>>],
     [date |-> strftime(1), editions |-> <<FullHandle("A")>>],
     [date |-> strftime(1), editions |-> <<FullHandle("B"), FullHandle("A")>>],
     [date |-> strftime(2), editions |-> <<FullHandle("A")>>]}

\* ... and raw replica records: two editions of the asked date, another date,
\* and a record without publishDate.
ReplicaIndexRecords ==
    {[publishDate |-> strftime(1) \o TimePart, editionGuid |-> "guid", name |-> "A"],
     [publishDate |-> strftime(1), editionGuid |-> "guid", name |-> "B"],
     [publishDate |-> strftime(2) \o TimePart, editionGuid |-> "guid", name |-> "A"],
     [editionGuid |-> "guid", name |-> "A"]}

SeqsUpTo(S, n) == UNION {[1..k -> S] : k \in 0..n}

\* What the edition-list endpoint of a publication may serve while editions
\* are acquired: no record or one ...
RawLists(api) ==
    {<<>>} \cup {<<r>> : r \in IF api = "replica" THEN ReplicaRecords
                                                  ELSE PublishedRecords}

\* ... and while the edition index is exercised: up to MaxIndexEditions.

IndexLists(api) ==
    SeqsUpTo(IF api = "replica" THEN ReplicaIndexRecords
                                ELSE PublishedIndexRecords,
             MaxIndexEditions)

VARIABLES
    api_type,         \* paper_config['api_type'] of the scraper
    server_editions,  \* what the edition-list endpoint serves (raw JSON list)
    editions_cache,   \* self.editions_cache: None or Some(list)
    disk,             \* output/<slug>/<date>: one edition directory per date
    pc,               \* where the call in progress stands
    call,             \* the public method called last, with its argument
    date,             \* get_page_images: the date asked for
    edition,          \* the handle find_edition_by_date returned (None/Some)
    page_num,         \* probe loop counter / page being written
    page_map,         \* the fetcher's in-memory page_map list
    image_server,     \* what get_image.aspx answers for pages 1..Len
    zip_names,        \* None (not a zip file) or Some(zf.namelist())
    zip_idx,          \* position of the archive walk
    net,              \* network requests issued by the call, in order
    outcome,          \* "none" | "running" | "returned" | "raised" | "interrupted"
    result,           \* what the call returned
    prev,             \* per date: what the get_page_images before this one returned
    found,            \* what the call found of the edition directory
    manifest_outcome, \* "none" | "no_link" | "failed" | "raised" | "parsed"
    extract_log,      \* per archive entry walked: what was done with it
    editions_status,  \* HTTP status of the call's edition-list response, 0: none
    zip_status,       \* HTTP status of the call's archive response, 0: none
    refresh_failed,   \* the last edition-list request of the instance failed
    glob_listing,     \* edition_dir.glob("page_*.png"), in the order listed
    sorted_images,    \* None, or Some(what sorted(...) made of the listing)
    dates,            \* main: the dates of the run, in order
    clients_only,     \* main: args.clients_only
    date_idx,         \* main: position of the loop over dates, 0 before it
    main_pc,          \* main: "none" | "for" | "process_date" | "report" | "done"
    all_ads,          \* main: the ads collected so far
    processed,        \* main: per date taken by the loop, how process_date ended
    emails,           \* notify: the error notifications asked for
    report,           \* the CSV report: None, or Some(rows)
    analysed,         \* process_date: None, or Some(pages given to analyze_page)
    pages_table,      \* db: the rows of table "pages"
    ads_table,        \* db: the rows of table "ads"
    advertiser_papers,\* db: the rows of table "advertiser_papers"
    upload_call,      \* upload_edition: the arguments of the last call
    upload_count      \* upload_edition calls completed

vars == <<api_type, server_editions, editions_cache, disk, pc, call, date,
          edition, page_num, page_map, image_server, zip_names, zip_idx, net,
          outcome, result, prev, found, manifest_outcome,
          extract_log, editions_status, zip_status, refresh_failed,
          glob_listing, sorted_images,
          dates, clients_only, date_idx, main_pc, all_ads, processed, emails,
          report, analysed, pages_table, ads_table, advertiser_papers,
          upload_call, upload_count>>

\* The tables of the database, with what upload_edition is given.
db_vars == <<pages_table, ads_table, advertiser_papers, upload_call,
             upload_count>>

\* The variables of the scraper, and those of main().
scraper_vars == <<api_type, server_editions, editions_cache, disk, pc, call,
                  date, edition, page_num, page_map, image_server, zip_names,
                  zip_idx, net, outcome, result, prev, found,
                  manifest_outcome, extract_log, editions_status,
                  zip_status, refresh_failed>>
main_vars == <<dates, clients_only, date_idx, main_pc, all_ads, processed,
               emails, report>>

\* The listing get_page_images sorts.
sort_vars == <<glob_listing, sorted_images>>

\* The variables of one fetcher run.
run_vars == <<page_num, page_map, image_server, zip_names, zip_idx,
              manifest_outcome, extract_log, zip_status>>

\* ------------------------------------------------------------ edition index
\* requests.get(...).json() of published.json: the list as served.
get_editions_published(raw) == raw

\* NormalizeReplica keeping the whole publishDate as the date.
NormalizeReplicaWholeTimestamp(e) ==
    [date |-> Get(e, "publishDate", <<>>),
     editions |-> << [editionGuid |-> Get(e, "editionGuid", ""),
                      name |-> Get(e, "name", "")] >>]

\* One raw replica record normalized to the published.json shape.
NormalizeReplica(e) ==
    [date |-> Take(Get(e, "publishDate", <<>>), 10),
     editions |-> << [editionGuid |-> Get(e, "editionGuid", ""),
                      name |-> Get(e, "name", "")] >>]

get_editions_replica(raw) == [i \in 1..Len(raw) |-> NormalizeReplica(raw[i])]

\* `if self.editions_cache and not force_refresh`: None and [] are both falsy.
CacheHit(cache, force_refresh) ==
    /\ cache # None
    /\ Len(cache[1]) > 0
    /\ ~force_refresh

\* The list a successful edition-list request yields.
FetchEditions ==
    IF api_type = "replica"
    THEN get_editions_replica(server_editions)
    ELSE get_editions_published(server_editions)

\* The first record of the list, in order, whose date is date_str and whose
\* editions list is non-empty: its position, or 0.
RECURSIVE FirstMatch(_, _, _)
FirstMatch(editions, date_str, i) ==
    IF i > Len(editions) THEN 0
    ELSE IF /\ Get(editions[i], "date", None) = date_str
            /\ Len(Get(editions[i], "editions", <<>>)) > 0
         THEN i
         ELSE FirstMatch(editions, date_str, i + 1)

\* FindEdition taking the last edition of the record instead of editions[0].
FindEditionLastOfRecord(editions, date_str) ==
    LET i == FirstMatch(editions, date_str, 1)
    IN  IF i = 0 THEN None
        ELSE Some(editions[i].editions[Len(editions[i].editions)])

\* FindEdition without the comparison of the record's date.
FindEditionAnyDate(editions, date_str) ==
    LET with == {i \in 1..Len(editions) :
                    Len(Get(editions[i], "editions", <<>>)) > 0}
    IN  IF with = {} THEN None
        ELSE Some(editions[CHOOSE i \in with : \A j \in with : i <= j].editions[1])

\* FindEdition giving up at the first record of the date.
FindEditionFirstDateRecord(editions, date_str) ==
    LET of_date == {i \in 1..Len(editions) :
                       Get(editions[i], "date", None) = date_str}
        first == CHOOSE i \in of_date : \A j \in of_date : i <= j
    IN  IF of_date = {} THEN None
        ELSE IF Len(Get(editions[first], "editions", <<>>)) > 0
             THEN Some(editions[first].editions[1])
             ELSE None

\* find_edition_by_date, given the list get_editions returned.
FindEdition(editions, date_str) ==
    LET i == FirstMatch(editions, date_str, 1)
    IN  IF i = 0 THEN None ELSE Some(editions[i].editions[1])

\* The edition-list request of this publication.
EditionsRequest == [kind |-> "editions", page |-> 0]

\* ------------------------------------------------------ edition directory
\* An edition directory that does not exist.
NoDir ==
    [exists |-> FALSE, images |-> {}, page_map_json |-> None,
     metadata_json |-> None, edition_json |-> None]

\* edition_dir.mkdir(parents=True, exist_ok=True)
Mkdir(dir) == [dir EXCEPT !.exists = TRUE]

\* edition_dir.exists() and list(edition_dir.glob("page_*.png"))
AlreadyDownloaded(dir) == dir.exists /\ dir.images # {}

\* sorted(glob("page_*.png"), key=page number): the page numbers, ascending.
RECURSIVE SortedPages(_)
SortedPages(S) ==
    IF S = {} THEN <<>>
    ELSE LET m == CHOOSE x \in S : \A y \in S : x <= y
         IN  <<m>> \o SortedPages(S \ {m})

\* What a call notes of the directory when it is entered.
Found(dir) ==
    [exists |-> dir.exists, images |-> dir.images # {},
     page_map |-> dir.page_map_json # None]

\* ------------------------------------------------------------- public calls
NoCall == [op |-> "none", date |-> 0, force_refresh |-> FALSE]

\* A public method of the scraper is entered: nothing of the previous call's
\* run is left, and the call's own observations start empty.
Enter(op, d, force_refresh, first_pc) ==
    /\ pc = "idle"
    /\ pc' = first_pc
    /\ call' = [op |-> op, date |-> d, force_refresh |-> force_refresh]
    /\ date' = d
    /\ edition' = None
    /\ page_num' = 0
    /\ page_map' = <<>>
    /\ image_server' = <<>>
    /\ zip_names' = None
    /\ zip_idx' = 0
    /\ net' = <<>>
    /\ outcome' = "running"
    /\ result' = None
    /\ prev' = IF call.op # "get_page_images" THEN prev
               ELSE IF outcome = "returned"
               THEN [prev EXCEPT ![call.date] = Some(result)]
               ELSE [prev EXCEPT ![call.date] = None]
    /\ found' = Found(IF d \in Dates THEN disk[d] ELSE NoDir)
    /\ manifest_outcome' = "none"
    /\ extract_log' = <<>>
    /\ editions_status' = 0
    /\ zip_status' = 0
    /\ analysed' = None
    /\ UNCHANGED <<db_vars, main_vars, sort_vars, refresh_failed, api_type, server_editions, editions_cache, disk>>

\* The call returns `value` to its caller.
Return(value) ==
    /\ pc' = "idle"
    /\ outcome' = "returned"
    /\ result' = value

\* An exception leaves the call.
Raise ==
    /\ pc' = "idle"
    /\ outcome' = "raised"
    /\ result' = None

\* self.get_editions(force_refresh), as every caller runs it: from the cache,
\* or by one request that either fails (raise_for_status) or fills the cache.
\* After EditionsServed the list returned is editions_cache'[1].
EditionsServed(force_refresh) ==
    \/ /\ CacheHit(editions_cache, force_refresh)
       /\ UNCHANGED <<editions_cache, net, editions_status, refresh_failed>>
    \/ /\ ~CacheHit(editions_cache, force_refresh)
       /\ net' = Append(net, EditionsRequest)
       /\ editions_status' = 200
       /\ refresh_failed' = FALSE
       /\ editions_cache' = Some(FetchEditions)

\* Statuses response.raise_for_status() raises on.
ErrorStatuses == {404, 500}

\* EditionsFailed retrying the request once before it gives up.
EditionsFailedAfterRetry(force_refresh) ==
    /\ ~CacheHit(editions_cache, force_refresh)
    /\ net' = Append(Append(net, EditionsRequest), EditionsRequest)
    /\ editions_status' \in ErrorStatuses
    /\ refresh_failed' = TRUE
    /\ UNCHANGED editions_cache

\* The request of get_editions answered with an error status, lines 59-60
\* and 69-70: raise_for_status raises and the cache is left as it was.
EditionsFailed(force_refresh) ==
    /\ ~CacheHit(editions_cache, force_refresh)
    /\ net' = Append(net, EditionsRequest)
    /\ editions_status' \in ErrorStatuses
    /\ refresh_failed' = TRUE
    /\ UNCHANGED editions_cache

call_get_editions(force_refresh) ==
    Enter("get_editions", 0, force_refresh, "get_editions")

get_editions ==
    /\ pc = "get_editions"
    /\ \/ EditionsServed(call.force_refresh) /\ Return(editions_cache'[1])
       \/ EditionsFailed(call.force_refresh) /\ Raise
    /\ UNCHANGED <<db_vars, analysed, main_vars, sort_vars, api_type, server_editions, disk, call, date, edition, prev,
                   found, run_vars>>

call_find_edition_by_date(d) ==
    Enter("find_edition_by_date", d, FALSE, "find_edition_by_date")

find_edition_by_date ==
    /\ pc = "find_edition_by_date"
    /\ \/ /\ EditionsServed(FALSE)
          /\ Return(FindEdition(editions_cache'[1], strftime(date)))
       \/ EditionsFailed(FALSE) /\ Raise
    /\ UNCHANGED <<db_vars, analysed, main_vars, sort_vars, api_type, server_editions, disk, call, date, edition, prev,
                   found, run_vars>>

\* The edition-list endpoint publishes another list.
ServerPublishes(raw) ==
    /\ pc = "idle"
    /\ raw # server_editions
    /\ server_editions' = raw
    /\ UNCHANGED <<db_vars, analysed, main_vars, sort_vars, refresh_failed, editions_status, api_type, editions_cache, disk, pc, call, date, edition,
                   net, outcome, result, prev, found, run_vars>>

\* PageSuiteScraper(paper_config): a new instance (a new process) for the
\* same publication starts with an empty cache.
NewScraper ==
    /\ pc = "idle"
    /\ editions_cache # None
    /\ editions_cache' = None
    /\ refresh_failed' = FALSE
    /\ UNCHANGED <<db_vars, analysed, main_vars, sort_vars, editions_status, api_type, server_editions, disk, pc, call, date, edition,
                   net, outcome, result, prev, found, run_vars>>

InitWith(Lists(_)) ==
    /\ api_type \in {"published", "replica"}
    /\ server_editions \in Lists(api_type)
    /\ editions_cache = None
    /\ disk = [d \in Dates |-> NoDir]
    /\ pc = "idle"
    /\ call = NoCall
    /\ date = 0
    /\ edition = None
    /\ page_num = 0
    /\ page_map = <<>>
    /\ image_server = <<>>
    /\ zip_names = None
    /\ zip_idx = 0
    /\ net = <<>>
    /\ outcome = "none"
    /\ result = None
    /\ prev = [d \in Dates |-> None]
    /\ found = Found(NoDir)
    /\ manifest_outcome = "none"
    /\ extract_log = <<>>
    /\ editions_status = 0
    /\ zip_status = 0
    /\ refresh_failed = FALSE
    /\ glob_listing = <<>>
    /\ sorted_images = None
    /\ dates = <<>>
    /\ clients_only = FALSE
    /\ date_idx = 0
    /\ main_pc = "none"
    /\ all_ads = <<>>
    /\ processed = <<>>
    /\ emails = <<>>
    /\ report = None
    /\ analysed = None
    /\ pages_table = {}
    /\ ads_table = {}
    /\ advertiser_papers = {}
    /\ upload_call = None
    /\ upload_count = 0

\* ------------------------------------------------------- get_page_images
call_get_page_images(d) == Enter("get_page_images", d, FALSE, "find")

\* get_page_images, lines 240-243: find_edition_by_date, and [] when the
\* date has no edition.
find_edition ==
    /\ pc = "find"
    /\ \/ /\ EditionsServed(FALSE)
          /\ LET handle == FindEdition(editions_cache'[1], strftime(date))
             IN  IF handle = None
                 THEN Return(<<>>) /\ UNCHANGED edition
                 ELSE /\ edition' = handle
                      /\ pc' = "download"
                      /\ UNCHANGED <<outcome, result>>
       \/ EditionsFailed(FALSE) /\ Raise /\ UNCHANGED edition
    /\ UNCHANGED <<db_vars, analysed, main_vars, sort_vars, api_type, server_editions, disk, call, date, prev,
                   found, run_vars>>

\* get_page_images, lines 246-253: the images of the directory the fetcher
\* returned, in page order.
return_images ==
    /\ pc = "images"
    /\ Return(SortedPages(disk[date].images))
    /\ UNCHANGED <<db_vars, analysed, main_vars, sort_vars, refresh_failed, editions_status, api_type, server_editions, editions_cache, disk, call,
                   date, edition, net, prev, found, run_vars>>

\* --------------------------------------------------- probe-mode fetcher
\* What get_image.aspx answers.  A 200 response is a real page when it has
\* at least PLACEHOLDER_MAX_BYTES bytes.
Responses ==
    {[status |-> 200, size |-> PLACEHOLDER_MAX_BYTES * 10],
     [status |-> 200, size |-> PLACEHOLDER_MAX_BYTES],
     [status |-> 200, size |-> PLACEHOLDER_MAX_BYTES - 1],
     [status |-> 404, size |-> PLACEHOLDER_MAX_BYTES * 10]}

\* The placeholder GIF the endpoint serves for a page the edition lacks.
Placeholder == [status |-> 200, size |-> 10000]

ImageServers == SeqsUpTo(Responses, MaxPages)

\* requests.get(IMAGE_BASE?eid=..&pnum=p&w=1200)
ImageResponse(server, p) == IF p <= Len(server) THEN server[p] ELSE Placeholder

\* ImageRequest with pnum counted from 0.
ImageRequestFromZero(p) == [kind |-> "image", page |-> p - 1]

\* The request the probe loop issues for page p, line 126.
ImageRequest(p) == [kind |-> "image", page |-> p]

\* ProbeStops with `<=` for `<`: a page of exactly the threshold size stops.
ProbeStopsAtThreshold(response) ==
    \/ response.status # 200
    \/ response.size <= PLACEHOLDER_MAX_BYTES

\* ProbeStops without the test of the status.
ProbeStopsOnSizeOnly(response) == response.size < PLACEHOLDER_MAX_BYTES

\* The probe loop's two break conditions, lines 129-134.
ProbeStops(response) ==
    \/ response.status # 200
    \/ response.size < PLACEHOLDER_MAX_BYTES

\* ProbeRecord numbering the pages from 0.
ProbeRecordFromZero(p) ==
    [page_num |-> p - 1, section |-> "Unknown", hash |-> <<>>,
     pdf_name |-> <<>>]

\* The page record the probe loop appends, lines 139-144.
ProbeRecord(p) ==
    [page_num |-> p, section |-> "Unknown", hash |-> <<>>, pdf_name |-> <<>>]

\* ReplicaShortCircuit asking for page_map.json besides the images.
ReplicaShortCircuitOnPageMap ==
    AlreadyDownloaded(disk[date]) /\ disk[date].page_map_json # None

\* _download_edition_replica, lines 109-112: the directory has images.
ReplicaShortCircuit == AlreadyDownloaded(disk[date])

\* replica_begin creating the directory before it looks for the GUID.
replica_begin_mkdir_first ==
    /\ pc = "download"
    /\ api_type = "replica"
    /\ IF ReplicaShortCircuit
       THEN /\ pc' = "images"
            /\ UNCHANGED <<disk, page_num, page_map, image_server, outcome,
                           result>>
       ELSE IF Get(edition[1], "editionGuid", "") = ""
       THEN /\ Return(<<>>)
            /\ disk' = [disk EXCEPT ![date] = Mkdir(@)]
            /\ UNCHANGED <<page_num, page_map, image_server>>
       ELSE /\ disk' = [disk EXCEPT ![date] = Mkdir(@)]
            /\ page_map' = <<>>
            /\ page_num' = 1
            /\ image_server' \in ImageServers
            /\ pc' = "probe"
            /\ UNCHANGED <<outcome, result>>
    /\ UNCHANGED <<db_vars, analysed, main_vars, sort_vars, refresh_failed, editions_status, api_type, server_editions,
                   editions_cache, call, date, edition, net, prev, found,
                   zip_names, zip_status, zip_idx, manifest_outcome, extract_log>>

\* _download_edition_replica up to the probe loop, lines 104-124.
replica_begin ==
    /\ pc = "download"
    /\ api_type = "replica"
    /\ IF ReplicaShortCircuit
       THEN /\ pc' = "images"
            /\ UNCHANGED <<disk, page_num, page_map, image_server, outcome,
                           result>>
       ELSE IF Get(edition[1], "editionGuid", "") = ""
       THEN /\ Return(<<>>)
            /\ UNCHANGED <<disk, page_num, page_map, image_server>>
       ELSE /\ disk' = [disk EXCEPT ![date] = Mkdir(@)]
            /\ page_map' = <<>>
            /\ page_num' = 1
            /\ image_server' \in ImageServers
            /\ pc' = "probe"
            /\ UNCHANGED <<outcome, result>>
    /\ UNCHANGED <<db_vars, analysed, main_vars, sort_vars, refresh_failed, editions_status, api_type, server_editions, editions_cache, call, date,
                   edition, net, prev, found, zip_names, zip_status, zip_idx,
                   manifest_outcome, extract_log>>

\* probe saving page_map.json with every page it writes.
probe_saving_page_map ==
    /\ pc = "probe"
    /\ net' = Append(net, ImageRequest(page_num))
    /\ IF ProbeStops(ImageResponse(image_server, page_num))
       THEN /\ pc' = "save_page_map"
            /\ UNCHANGED <<disk, page_map, page_num>>
       ELSE /\ page_map' = Append(page_map, ProbeRecord(page_num))
            /\ disk' = [disk EXCEPT ![date].images = @ \cup {page_num},
                                    ![date].page_map_json = Some(page_map')]
            /\ page_num' = page_num + 1
            /\ UNCHANGED pc
    /\ UNCHANGED <<db_vars, analysed, main_vars, sort_vars, refresh_failed, editions_status, api_type, server_editions, editions_cache, call, date,
                   edition, outcome, result, prev, found, image_server,
                   zip_names, zip_status, zip_idx, manifest_outcome, extract_log>>

\* One iteration of the probe loop, lines 125-146.
probe ==
    /\ pc = "probe"
    /\ net' = Append(net, ImageRequest(page_num))
    /\ IF ProbeStops(ImageResponse(image_server, page_num))
       THEN /\ pc' = "save_page_map"
            /\ UNCHANGED <<disk, page_map, page_num>>
       ELSE /\ disk' = [disk EXCEPT ![date].images = @ \cup {page_num}]
            /\ page_map' = Append(page_map, ProbeRecord(page_num))
            /\ page_num' = page_num + 1
            /\ UNCHANGED pc
    /\ UNCHANGED <<db_vars, analysed, main_vars, sort_vars, refresh_failed, editions_status, api_type, server_editions, editions_cache, call, date,
                   edition, outcome, result, prev, found, image_server,
                   zip_names, zip_status, zip_idx, manifest_outcome, extract_log>>

\* json.dump(page_map, page_map.json), lines 148-150.
replica_save_page_map ==
    /\ pc = "save_page_map"
    /\ disk' = [disk EXCEPT ![date].page_map_json = Some(page_map)]
    /\ pc' = "save_metadata"
    /\ UNCHANGED <<db_vars, analysed, main_vars, sort_vars, refresh_failed, editions_status, api_type, server_editions, editions_cache, call, date,
                   edition, net, outcome, result, prev, found, run_vars>>

\* json.dump(edition, metadata.json) and return edition_dir, lines 152-157.
replica_save_metadata ==
    /\ pc = "save_metadata"
    /\ disk' = [disk EXCEPT ![date].metadata_json = edition]
    /\ pc' = "images"
    /\ UNCHANGED <<db_vars, analysed, main_vars, sort_vars, refresh_failed, editions_status, api_type, server_editions, editions_cache, call, date,
                   edition, net, outcome, result, prev, found, run_vars>>

\* -------------------------------------------------- archive-mode fetcher
\* Parts of names: directories and extensions.
DirParts == {"pages/"}
ExtParts == {".pdf", ".PDF", ".txt", ".jpg"}

\* str.lower(), on the parts that have upper case.
Lower(part) == IF part = ".PDF" THEN ".pdf" ELSE part

\* s.endswith('.pdf')
EndsWithPdf(s) == Len(s) > 0 /\ s[Len(s)] = ".pdf"

\* name.lower().endswith('.pdf')
LowerEndsWithPdf(s) == Len(s) > 0 /\ Lower(s[Len(s)]) = ".pdf"

\* content_url.replace('.pdf', ''): every occurrence is removed.
ReplacePdf(s) == SelectSeq(s, LAMBDA part : part # ".pdf")

\* Path(name).name: what follows the last directory.
Basename(s) ==
    LET dirs == {i \in 1..Len(s) : s[i] \in DirParts}
    IN  IF dirs = {} THEN s
        ELSE SubSeq(s, (CHOOSE i \in dirs : \A j \in dirs : j <= i) + 1, Len(s))

\* basename.rsplit('.', 1)[0]: what precedes the last dot.
RsplitDot(s) ==
    LET dots == {i \in 1..Len(s) : s[i] \in ExtParts}
    IN  IF dots = {} THEN s
        ELSE SubSeq(s, 1, (CHOOSE i \in dots : \A j \in dots : j <= i) - 1)

\* An element of the manifest's pages array that is not an object.
Malformed == [not_a_dict |-> TRUE]

\* Elements of the pages array of edition.json.
ManifestEntries ==
    {[contenturl |-> <<"abc", ".pdf">>, section |-> "News"],
     [contenturl |-> <<"def", ".pdf">>, section |-> "Sports"],
     [contenturl |-> <<"def", ".pdf">>],
     [contenturl |-> <<"img", ".jpg">>, section |-> "News"],
     Malformed}

Manifests == SeqsUpTo(ManifestEntries, MaxManifest)

\* Names of archive entries.
ArchiveNames ==
    {<<"abc", ".pdf">>, <<"pages/", "def", ".PDF">>, <<"xyz", ".pdf">>,
     <<"abc", ".txt">>}

Archives == SeqsUpTo(ArchiveNames, MaxArchive)

\* What convert_from_bytes does with one document: a list of images, an
\* empty list, or an exception.
Conversions == {"ok", "empty", "raises"}

\* ManifestRecords numbering the records 1, 2, ... instead of by position.
RECURSIVE ManifestRecordsCounted(_, _, _)
ManifestRecordsCounted(pages, i, n) ==
    IF i > Len(pages) \/ pages[i] = Malformed THEN <<>>
    ELSE LET content_url == Get(pages[i], "contenturl", <<>>)
         IN  IF ~EndsWithPdf(content_url)
             THEN ManifestRecordsCounted(pages, i + 1, n)
             ELSE <<[page_num |-> n,
                     section |-> Get(pages[i], "section", "Unknown"),
                     hash |-> ReplacePdf(content_url),
                     pdf_name |-> content_url]>>
                  \o ManifestRecordsCounted(pages, i + 1, n + 1)

ManifestRecordsRenumbered(pages, i) == ManifestRecordsCounted(pages, i, 1)

\* ManifestRecords with an empty section for an element that has none.
RECURSIVE ManifestRecordsNoDefault(_, _)
ManifestRecordsNoDefault(pages, i) ==
    IF i > Len(pages) \/ pages[i] = Malformed THEN <<>>
    ELSE LET content_url == Get(pages[i], "contenturl", <<>>)
         IN  IF ~EndsWithPdf(content_url)
             THEN ManifestRecordsNoDefault(pages, i + 1)
             ELSE <<[page_num |-> i,
                     section |-> Get(pages[i], "section", ""),
                     hash |-> ReplacePdf(content_url),
                     pdf_name |-> content_url]>>
                  \o ManifestRecordsNoDefault(pages, i + 1)

\* The manifest loop, lines 193-203, over pages[i..]: one record per element
\* whose contenturl ends in .pdf, numbered by position, up to the first
\* element page.get raises on.
RECURSIVE ManifestRecords(_, _)
ManifestRecords(pages, i) ==
    IF i > Len(pages) \/ pages[i] = Malformed THEN <<>>
    ELSE LET content_url == Get(pages[i], "contenturl", <<>>)
         IN  IF ~EndsWithPdf(content_url)
             THEN ManifestRecords(pages, i + 1)
             ELSE <<[page_num |-> i,
                     section |-> Get(pages[i], "section", "Unknown"),
                     hash |-> ReplacePdf(content_url),
                     pdf_name |-> content_url]>>
                  \o ManifestRecords(pages, i + 1)

\* Whether the manifest loop raises.
ManifestRaises(pages) == \E i \in 1..Len(pages) : pages[i] = Malformed

\* {p['hash']: p[...] for p in page_map}: the last record of a key wins.
HasKey(pm, key) == \E i \in 1..Len(pm) : pm[i].hash = key
LastRecord(pm, key) ==
    pm[CHOOSE i \in 1..Len(pm) :
          /\ pm[i].hash = key
          /\ \A j \in 1..Len(pm) : pm[j].hash = key => j <= i]
hash_to_page(pm, key) == LastRecord(pm, key).page_num
hash_to_section(pm, key) == LastRecord(pm, key).section

\* Selected without the test of the entry's extension.
SelectedAnyExtension(name, pm) == HasKey(pm, RsplitDot(Basename(name)))

\* The test of line 219 on one archive entry.
Selected(name, pm) ==
    /\ LowerEndsWithPdf(name)
    /\ HasKey(pm, RsplitDot(Basename(name)))

ZipRequest == [kind |-> "zip", page |-> 0]
ManifestRequest == [kind |-> "manifest", page |-> 0]

\* _download_edition_published, lines 166-169: the directory has images.
PublishedShortCircuit == AlreadyDownloaded(disk[date])

\* published_begin creating the directory before it requests the archive.
published_begin_mkdir_first ==
    /\ pc = "download"
    /\ api_type # "replica"
    /\ IF PublishedShortCircuit
       THEN /\ pc' = "images"
            /\ UNCHANGED <<disk, net, zip_names, zip_status, outcome, result>>
       ELSE IF Get(edition[1], "zip", "") = ""
       THEN /\ Return(<<>>)
            /\ UNCHANGED <<disk, net, zip_names, zip_status>>
       ELSE /\ net' = Append(net, ZipRequest)
            /\ \/ /\ zip_status' \in ErrorStatuses
                  /\ Raise
                  /\ disk' = [disk EXCEPT ![date] = Mkdir(@)]
                  /\ UNCHANGED zip_names
               \/ /\ zip_status' = 200
                  /\ zip_names' \in {None} \cup {Some(a) : a \in Archives}
                  /\ disk' = [disk EXCEPT ![date] = Mkdir(@)]
                  /\ pc' = "manifest"
                  /\ UNCHANGED <<outcome, result>>
    /\ UNCHANGED <<db_vars, analysed, main_vars, sort_vars, refresh_failed, editions_status, api_type, server_editions, editions_cache, call, date,
                   edition, prev, found, page_num, page_map, image_server,
                   zip_idx, manifest_outcome, extract_log>>


\* _download_edition_published up to mkdir, lines 159-180.
published_begin ==
    /\ pc = "download"
    /\ api_type # "replica"
    /\ IF PublishedShortCircuit
       THEN /\ pc' = "images"
            /\ UNCHANGED <<disk, net, zip_names, zip_status, outcome, result>>
       ELSE IF Get(edition[1], "zip", "") = ""
       THEN /\ Return(<<>>)
            /\ UNCHANGED <<disk, net, zip_names, zip_status>>
       ELSE /\ net' = Append(net, ZipRequest)
            /\ \/ /\ zip_status' \in ErrorStatuses
                  /\ Raise
                  /\ UNCHANGED <<disk, zip_names>>
               \/ /\ zip_status' = 200
                  /\ zip_names' \in {None} \cup {Some(a) : a \in Archives}
                  /\ disk' = [disk EXCEPT ![date] = Mkdir(@)]
                  /\ pc' = "manifest"
                  /\ UNCHANGED <<outcome, result>>
    /\ UNCHANGED <<db_vars, analysed, main_vars, sort_vars, refresh_failed, editions_status, api_type, server_editions, editions_cache, call, date,
                   edition, prev, found, page_num, page_map, image_server,
                   zip_idx, manifest_outcome, extract_log>>

\* The manifest step, lines 182-207.
published_manifest ==
    /\ pc = "manifest"
    /\ pc' = "extract"
    /\ zip_idx' = 1
    /\ IF Get(edition[1], "editionLink", "") = ""
       THEN /\ manifest_outcome' = "no_link"
            /\ page_map' = <<>>
            /\ UNCHANGED <<disk, net>>
       ELSE /\ net' = Append(net, ManifestRequest)
            /\ \/ /\ manifest_outcome' = "failed"
                  /\ page_map' = <<>>
                  /\ UNCHANGED disk
               \/ \E pages \in Manifests :
                    /\ page_map' = ManifestRecords(pages, 1)
                    /\ IF ManifestRaises(pages)
                       THEN /\ manifest_outcome' = "raised"
                            /\ disk' = [disk EXCEPT
                                   ![date].edition_json = Some(pages)]
                       ELSE /\ manifest_outcome' = "parsed"
                            /\ disk' = [disk EXCEPT
                                   ![date].edition_json = Some(pages),
                                   ![date].page_map_json = Some(page_map')]
    /\ UNCHANGED <<db_vars, analysed, main_vars, sort_vars, refresh_failed, editions_status, api_type, server_editions, editions_cache, call, date,
                   edition, outcome, result, prev, found, page_num,
                   image_server, zip_names, zip_status, extract_log>>

\* What the archive walk records of one entry.
Walked(name, selected, conversion, page, section) ==
    [name |-> name, selected |-> selected, conversion |-> conversion,
     page |-> page, section |-> section]

\* published_extract without the try around the conversion: a conversion
\* that raises ends the fetcher.
published_extract_unguarded ==
    /\ pc = "extract"
    /\ IF zip_names = None
       THEN /\ Raise
            /\ UNCHANGED <<disk, zip_idx, page_num, extract_log>>
       ELSE IF zip_idx > Len(zip_names[1])
       THEN /\ pc' = "metadata"
            /\ UNCHANGED <<disk, zip_idx, page_num, extract_log, outcome,
                           result>>
       ELSE LET name == zip_names[1][zip_idx]
                hash_name == RsplitDot(Basename(name))
            IN  /\ zip_idx' = zip_idx + 1
                /\ IF Selected(name, page_map)
                   THEN \E conversion \in Conversions :
                          /\ IF conversion = "raises" THEN Raise
                             ELSE UNCHANGED <<pc, outcome, result>>
                          /\ page_num' = hash_to_page(page_map, hash_name)
                          /\ extract_log' = Append(extract_log,
                                 Walked(name, TRUE, conversion, page_num',
                                        hash_to_section(page_map, hash_name)))
                          /\ disk' = IF conversion = "ok"
                                     THEN [disk EXCEPT ![date].images =
                                              @ \cup {page_num'}]
                                     ELSE disk
                   ELSE /\ extract_log' = Append(extract_log,
                               Walked(name, FALSE, "none", 0, "Unknown"))
                        /\ UNCHANGED <<disk, page_num, pc, outcome, result>>
    /\ UNCHANGED <<db_vars, analysed, main_vars, sort_vars, refresh_failed, editions_status, api_type, server_editions, editions_cache, call, date,
                   edition, net, prev, found, page_map, image_server,
                   zip_names, zip_status, manifest_outcome>>

\* Opening the archive and one iteration of the walk, lines 214-230.
published_extract ==
    /\ pc = "extract"
    /\ IF zip_names = None
       THEN /\ Raise
            /\ UNCHANGED <<disk, zip_idx, page_num, extract_log>>
       ELSE IF zip_idx > Len(zip_names[1])
       THEN /\ pc' = "metadata"
            /\ UNCHANGED <<disk, zip_idx, page_num, extract_log, outcome,
                           result>>
       ELSE LET name == zip_names[1][zip_idx]
                hash_name == RsplitDot(Basename(name))
            IN  /\ zip_idx' = zip_idx + 1
                /\ UNCHANGED <<pc, outcome, result>>
                /\ IF Selected(name, page_map)
                   THEN \E conversion \in Conversions :
                          /\ page_num' = hash_to_page(page_map, hash_name)
                          /\ extract_log' = Append(extract_log,
                                 Walked(name, TRUE, conversion, page_num',
                                        hash_to_section(page_map, hash_name)))
                          /\ disk' = IF conversion = "ok"
                                     THEN [disk EXCEPT ![date].images =
                                              @ \cup {page_num'}]
                                     ELSE disk
                   ELSE /\ extract_log' = Append(extract_log,
                               Walked(name, FALSE, "none", 0, "Unknown"))
                        /\ UNCHANGED <<disk, page_num>>
    /\ UNCHANGED <<db_vars, analysed, main_vars, sort_vars, refresh_failed, editions_status, api_type, server_editions, editions_cache, call, date,
                   edition, net, prev, found, page_map, image_server,
                   zip_names, zip_status, manifest_outcome>>

\* json.dump(edition, metadata.json) and return edition_dir, lines 232-236.
published_save_metadata ==
    /\ pc = "metadata"
    /\ disk' = [disk EXCEPT ![date].metadata_json = edition]
    /\ pc' = "images"
    /\ UNCHANGED <<db_vars, analysed, main_vars, sort_vars, refresh_failed, editions_status, api_type, server_editions, editions_cache, call, date,
                   edition, net, outcome, result, prev, found, run_vars>>

\* The process is killed while the probe-mode fetcher runs: what is on disk
\* stays, the instance and its cache are gone.
Interrupt ==
    /\ pc \in {"probe", "save_page_map", "save_metadata"}
    /\ pc' = "idle"
    /\ outcome' = "interrupted"
    /\ editions_cache' = None
    /\ refresh_failed' = FALSE
    /\ UNCHANGED <<db_vars, analysed, main_vars, sort_vars, editions_status, api_type, server_editions, disk, call, date, edition, net,
                   result, prev, found, run_vars>>

Init == InitWith(RawLists)

Next ==
    \/ \E d \in Dates : call_get_page_images(d)
    \/ find_edition
    \/ replica_begin
    \/ probe
    \/ replica_save_page_map
    \/ replica_save_metadata
    \/ published_begin
    \/ published_manifest
    \/ published_extract
    \/ published_save_metadata
    \/ return_images
    \/ Interrupt

Spec == Init /\ [][Next]_vars

\* The probe loop runs on unless the process is killed.
LiveSpec == Spec /\ WF_vars(probe)

\* ---------------------------------------------------- the edition index
IndexInit == InitWith(IndexLists)

IndexNext ==
    \/ \E f \in BOOLEAN : call_get_editions(f)
    \/ get_editions
    \/ \E d \in Dates : call_find_edition_by_date(d)
    \/ find_edition_by_date
    \/ \E raw \in IndexLists(api_type) : ServerPublishes(raw)
    \/ NewScraper

IndexSpec == IndexInit /\ [][IndexNext]_vars

\* ------------------------------------------------ the order of the images
\* Most page images of one listing.
MaxListing == 3

\* Page numbers on both sides of a change in the number of digits.
PageNumbers == {1, 2, 10, 99, 100, 999, 1000}

\* The characters of the decimal digits 0..9, and the digit of a character.
DigitChars == <<"0", "1", "2", "3", "4", "5", "6", "7", "8", "9">>
DigitValue(c) == CHOOSE d \in 0..9 : DigitChars[d + 1] = c

\* The decimal digits of n, most significant first.
RECURSIVE Digits(_)
Digits(n) ==
    IF n < 10 THEN <<DigitChars[n + 1]>>
    ELSE Append(Digits(n \div 10), DigitChars[(n % 10) + 1])

\* f"{n:03d}": the digits, padded with zeros to three.
Format03d(n) ==
    LET ds == Digits(n)
    IN  IF Len(ds) >= 3 THEN ds ELSE [i \in 1..(3 - Len(ds)) |-> "0"] \o ds

\* f"page_{page_num:03d}.png", lines 136 and 226.
PageName(n) == <<"page_">> \o Format03d(n) \o <<".png">>

\* int(digits), leading zeros included.
RECURSIVE int(_)
int(ds) ==
    IF ds = <<>> THEN 0
    ELSE int(SubSeq(ds, 1, Len(ds) - 1)) * 10 + DigitValue(ds[Len(ds)])

\* p.stem.replace('page_', ''): the name without its suffix and without
\* "page_".
StemDigits(name) ==
    SelectSeq(SubSeq(name, 1, Len(name) - 1), LAMBDA part : part # "page_")

\* SortKey comparing the names as strings: the first four characters of
\* the digits, a missing one before every digit.
LexicographicKey(name) ==
    LET ds == StemDigits(name)
    IN  int([i \in 1..4 |-> IF i <= Len(ds) THEN ds[i] ELSE "0"])

\* key=lambda p: int(p.stem.replace('page_', '')), line 251.
SortKey(name) == int(StemDigits(name))

\* sorted(list, key=SortKey): ascending by key, elements of equal key in
\* the order of the list.
RECURSIVE sorted(_)
sorted(list) ==
    IF list = <<>> THEN <<>>
    ELSE LET rest == sorted(Tail(list))
             k == Cardinality({i \in 1..Len(rest) :
                                  SortKey(rest[i]) < SortKey(Head(list))})
         IN  SubSeq(rest, 1, k) \o <<Head(list)>> \o SubSeq(rest, k + 1, Len(rest))

\* The orders in which the filesystem may list up to MaxListing page images
\* the fetchers wrote.
Listings ==
    {[i \in 1..Len(l) |-> PageName(l[i])] :
        l \in {x \in SeqsUpTo(PageNumbers, MaxListing) :
                  \A i, j \in 1..Len(x) : i # j => x[i] # x[j]}}

\* edition_dir.glob("page_*.png"), line 250.
list_directory(listing) ==
    /\ pc = "idle"
    /\ listing # glob_listing
    /\ glob_listing' = listing
    /\ sorted_images' = None
    /\ UNCHANGED <<db_vars, analysed, main_vars, refresh_failed, api_type, server_editions, editions_cache, disk,
                   pc, call, date, edition, net, outcome, result, prev,
                   found, run_vars, editions_status>>

\* images = sorted(...), lines 249-252.
sort_images ==
    /\ pc = "idle"
    /\ sorted_images = None
    /\ sorted_images' = Some(sorted(glob_listing))
    /\ UNCHANGED <<db_vars, analysed, main_vars, refresh_failed, api_type, server_editions, editions_cache, disk,
                   pc, call, date, edition, net, outcome, result, prev,
                   found, run_vars, editions_status, glob_listing>>

NoLists(api) == {<<>>}

SortInit == InitWith(NoLists)

SortNext ==
    \/ \E listing \in Listings : list_directory(listing)
    \/ sort_images

SortSpec == SortInit /\ [][SortNext]_vars

\* ------------------------------------------------- main(): a run over dates
\* Most dates of one run, and most ads one date yields.
MaxDates == 3
MaxAds == 1

\* Names are tuples of words.  str.lower() on the words that have upper case.
LowerWord(w) ==
    CASE w \in {"Acme", "ACME"} -> "acme"
      [] w = "Corp" -> "corp"
      [] w = "Bolt" -> "bolt"
      [] OTHER -> w
lower(name) == [i \in 1..Len(name) |-> LowerWord(name[i])]

\* a in b, on strings.
In(a, b) ==
    \E i \in 0..(Len(b) - Len(a)) : SubSeq(b, i + 1, i + Len(a)) = a

\* clients.txt as load_clients reads it.
Clients == << <<"ACME">>, <<"acme", "corp", "inc">> >>

\* Ads analyze_edition may return for a date.
AdRecords ==
    {[page |-> 1, advertiser |-> <<"Acme", "Corp">>],
     [page |-> 2, advertiser |-> <<"Bolt">>]}
AdLists == SeqsUpTo(AdRecords, MaxAds)

\* Where an exception may leave process_date.
RaisingCalls == {"get_page_images", "analyze_edition", "upload_edition"}

\* filter_client_ads, lines 118-134.
filter_client_ads(ads, clients) ==
    IF clients = <<>> THEN ads
    ELSE LET clients_lower == [i \in 1..Len(clients) |-> lower(clients[i])]
         IN  SelectSeq(ads, LAMBDA ad :
                 \E i \in 1..Len(clients_lower) :
                     \/ In(clients_lower[i], lower(ad.advertiser))
                     \/ In(lower(ad.advertiser), clients_lower[i]))

\* `ad['date'] = date_str` on every ad of the list, lines 262-263.
Stamped(ads, date_str) ==
    [i \in 1..Len(ads) |->
        [page |-> ads[i].page, advertiser |-> ads[i].advertiser,
         date |-> date_str]]

\* main up to the loop, lines 245-256: --date or --start-date/--end-date.
main_start(n, flag) ==
    /\ main_pc = "none"
    /\ dates' = [i \in 1..n |-> i]
    /\ clients_only' = flag
    /\ date_idx' = 0
    /\ all_ads' = <<>>
    /\ main_pc' = "for"
    /\ UNCHANGED <<db_vars, analysed, scraper_vars, sort_vars, processed, emails, report>>

\* `for date in dates`, line 257: the next date, or the end of the loop.
main_for ==
    /\ main_pc = "for"
    /\ IF date_idx < Len(dates)
       THEN date_idx' = date_idx + 1 /\ main_pc' = "process_date"
       ELSE main_pc' = "report" /\ UNCHANGED date_idx
    /\ UNCHANGED <<db_vars, analysed, scraper_vars, sort_vars, dates, clients_only, all_ads,
                   processed, emails, report>>

\* process_date returns its ads (none when the date has no image) and the
\* loop body collects them, lines 260-264.
process_date_returns(ads) ==
    /\ main_pc = "process_date"
    /\ all_ads' = all_ads \o Stamped(ads, strftime(dates[date_idx]))
    /\ processed' = Append(processed,
           [date |-> dates[date_idx], raised |-> FALSE, at |-> "", ads |-> ads])
    /\ main_pc' = "for"
    /\ UNCHANGED <<db_vars, analysed, scraper_vars, sort_vars, dates, clients_only, date_idx,
                   emails, report>>

\* process_date_raises letting the exception leave main().
process_date_raises_uncaught(at) ==
    /\ main_pc = "process_date"
    /\ processed' = Append(processed,
           [date |-> dates[date_idx], raised |-> TRUE, at |-> at, ads |-> <<>>])
    /\ emails' = Append(emails, [context |-> "main() top-level"])
    /\ main_pc' = "done"
    /\ UNCHANGED <<db_vars, analysed, scraper_vars, sort_vars, dates, clients_only, date_idx,
                   all_ads, report>>

\* An exception leaves process_date and the loop body handles it, lines
\* 265-271: send_error_email, which does not raise, and the next date.
process_date_raises(at) ==
    /\ main_pc = "process_date"
    /\ processed' = Append(processed,
           [date |-> dates[date_idx], raised |-> TRUE, at |-> at, ads |-> <<>>])
    /\ emails' = Append(emails, [context |-> strftime(dates[date_idx])])
    /\ main_pc' = "for"
    /\ UNCHANGED <<db_vars, analysed, scraper_vars, sort_vars, dates, clients_only, date_idx,
                   all_ads, report>>

\* main after the loop, lines 273-295: the filter, and the CSV written anew
\* when there is an ad.
main_report ==
    /\ main_pc = "report"
    /\ all_ads' = IF clients_only THEN filter_client_ads(all_ads, Clients)
                  ELSE all_ads
    /\ report' = IF all_ads' # <<>> THEN Some(all_ads') ELSE report
    /\ main_pc' = "done"
    /\ UNCHANGED <<db_vars, analysed, scraper_vars, sort_vars, dates, clients_only, date_idx,
                   processed, emails>>

MainInit == InitWith(NoLists)

MainNext ==
    \/ \E n \in 1..MaxDates, flag \in BOOLEAN : main_start(n, flag)
    \/ main_for
    \/ \E ads \in AdLists : process_date_returns(ads)
    \/ \E at \in RaisingCalls : process_date_raises(at)
    \/ main_report

MainSpec == MainInit /\ [][MainNext]_vars

\* ------------------------------------------- process_date: the analysis
\* analyze_edition, main.py lines 57-93: nothing without page_map.json;
\* else, in the order of its records, the pages whose image exists are
\* given to analyze_page.
analyze_edition(dir) ==
    IF dir.page_map_json = None THEN <<>>
    ELSE LET page_nums == [i \in 1..Len(dir.page_map_json[1]) |->
                              dir.page_map_json[1][i].page_num]
         IN  SelectSeq(page_nums, LAMBDA n : n \in dir.images)

\* process_date after scraper.get_page_images(date) returned, main.py lines
\* 146-152: no analysis without images, else analyze_edition on the
\* date's directory.
process_date ==
    /\ pc = "idle"
    /\ call.op = "get_page_images"
    /\ outcome = "returned"
    /\ analysed = None
    /\ analysed' = IF result = <<>> THEN Some(<<>>)
                   ELSE Some(analyze_edition(disk[date]))
    /\ UNCHANGED <<db_vars, main_vars, sort_vars, scraper_vars>>

ProcessNext ==
    \/ Next
    \/ process_date

ProcessSpec == Init /\ [][ProcessNext]_vars

\* ------------------------------------------------- db.py: upload_edition
\* Most upload_edition calls of one run, and most ads of one call.
MaxUploads == 2
MaxUploadAds == 2

\* The papers and dates of the editions uploaded, and the page images an
\* edition directory may hold.
Papers == {"ajc"}
UploadDates == {1, 2}
ImageSets == {{1}, {1, 2}}

\* Ads as analyze_edition hands them over: a page and the advertiser's
\* name as detected, which may be empty.
UploadAdRecords ==
    {[page |-> 1, advertiser |-> <<"Acme", "Corp">>],
     [page |-> 1, advertiser |-> <<"acme", "corp", " ">>],
     [page |-> 2, advertiser |-> <<"Acme", "Corp">>],
     [page |-> 1, advertiser |-> <<>>]}
UploadAdLists == SeqsUpTo(UploadAdRecords, MaxUploadAds)

\* str.strip(): whitespace at both ends removed.
RECURSIVE strip(_)
strip(name) ==
    IF name = <<>> THEN name
    ELSE IF Head(name) = " " THEN strip(Tail(name))
    ELSE IF name[Len(name)] = " " THEN strip(SubSeq(name, 1, Len(name) - 1))
    ELSE name

\* str.title(): every word with an upper-case first letter.
TitleWord(w) ==
    CASE w \in {"acme", "ACME"} -> "Acme"
      [] w = "corp" -> "Corp"
      [] w = "bolt" -> "Bolt"
      [] OTHER -> w
title(name) == [i \in 1..Len(name) |-> TitleWord(name[i])]

\* normalize_advertiser_name, lines 88-90.
normalize_advertiser_name(name) == title(strip(name))

\* ensure_advertiser, lines 93-103: one row per normalized name, whose id
\* stands for the row.
ensure_advertiser(name) == normalize_advertiser_name(name)

\* ensure_paper, ensure_edition and ensure_page, lines 25-85: one row per
\* key, whose id stands for the row.
ensure_page(paper, date_str, page) ==
    [paper_id |-> paper, date |-> date_str, page_num |-> page]

\* date_str < other, on ISO dates: the first character that differs.
StrLess(a, b) ==
    \E i \in 1..Len(a) :
        /\ i <= Len(b)
        /\ a[i] < b[i]
        /\ \A j \in 1..(i - 1) : a[j] = b[j]

\* update_advertiser_papers, lines 106-129: the row of the pair with its
\* count raised by one and its date range widened, or a new row.
update_advertiser_papers(ap, advertiser_id, paper_id, date_str) ==
    LET rows == {row \in ap : /\ row.advertiser_id = advertiser_id
                               /\ row.paper_id = paper_id}
    IN  IF rows # {}
        THEN LET row == CHOOSE r \in rows : TRUE
             IN  (ap \ {row}) \cup
                 {[row EXCEPT
                     !.ad_count = @ + 1,
                     !.first_seen = IF StrLess(date_str, @) THEN date_str ELSE @,
                     !.last_seen = IF StrLess(@, date_str) THEN date_str ELSE @]}
        ELSE ap \cup {[advertiser_id |-> advertiser_id, paper_id |-> paper_id,
                       ad_count |-> 1, first_seen |-> date_str,
                       last_seen |-> date_str]}

\* The loop of insert_ads, lines 164-183, from the i-th ad on, over the
\* tables db = [ads, advertiser_papers].
RECURSIVE InsertEach(_, _, _, _, _, _)
InsertEach(db, page_id, page_ads, i, paper_id, date_str) ==
    IF i > Len(page_ads) THEN db
    ELSE LET ad == page_ads[i]
             linked == ad.advertiser # <<>>
             row == [page_id |-> page_id, n |-> i,
                     advertiser |-> ad.advertiser,
                     advertiser_id |-> IF linked
                                       THEN Some(ensure_advertiser(ad.advertiser))
                                       ELSE None]
         IN  InsertEach(
                 [ads |-> db.ads \cup {row},
                  advertiser_papers |->
                      IF linked
                      THEN update_advertiser_papers(db.advertiser_papers,
                               ensure_advertiser(ad.advertiser), paper_id,
                               date_str)
                      ELSE db.advertiser_papers],
                 page_id, page_ads, i + 1, paper_id, date_str)

\* insert_ads, lines 157-183: the page's rows deleted, then one row per ad.
insert_ads(db, page_id, page_ads, paper_id, date_str) ==
    InsertEach([db EXCEPT !.ads = {r \in @ : r.page_id # page_id}],
               page_id, page_ads, 1, paper_id, date_str)

\* The loop of upload_edition over the page images, lines 239-254, from the
\* i-th image on.
RECURSIVE UploadPages(_, _, _, _, _, _)
UploadPages(db, page_images, i, paper_id, date_str, ads) ==
    IF i > Len(page_images) THEN db
    ELSE LET num == page_images[i]
             page_id == ensure_page(paper_id, date_str, num)
             page_ads == SelectSeq(ads, LAMBDA a : a.page = num)
         IN  UploadPages(
                 IF page_ads # <<>>
                 THEN insert_ads(db, page_id, page_ads, paper_id, date_str)
                 ELSE db,
                 page_images, i + 1, paper_id, date_str, ads)

\* upload_edition, lines 209-259.
upload_edition(paper, d, images, ads) ==
    /\ upload_count < MaxUploads
    /\ LET date_str == strftime(d)
           page_images == SortedPages(images)
           db == UploadPages([ads |-> ads_table,
                              advertiser_papers |-> advertiser_papers],
                             page_images, 1, paper, date_str, ads)
       IN  /\ pages_table' = pages_table \cup
                 {ensure_page(paper, date_str, n) : n \in images}
           /\ ads_table' = db.ads
           /\ advertiser_papers' = db.advertiser_papers
           /\ upload_call' = Some([paper |-> paper, date |-> date_str,
                                   images |-> images, all_ads |-> ads])
    /\ upload_count' = upload_count + 1
    /\ UNCHANGED <<analysed, main_vars, sort_vars, scraper_vars>>

UploadInit == InitWith(NoLists)

UploadNext ==
    \E paper \in Papers, d \in UploadDates, images \in ImageSets,
       ads \in UploadAdLists : upload_edition(paper, d, images, ads)

UploadSpec == UploadInit /\ [][UploadNext]_vars

\* ------------------------------------------- every public call of a scraper
\* get_page_images together with the calls of the edition index, on one
\* instance.
CallsNext ==
    \/ Next
    \/ \E f \in BOOLEAN : call_get_editions(f)
    \/ get_editions
    \/ \E d \in Dates : call_find_edition_by_date(d)
    \/ find_edition_by_date

CallsSpec == Init /\ [][CallsNext]_vars

\* ================================================================ claims
Range(s) == {s[i] : i \in 1..Len(s)}

\* A get_page_images call has returned to its caller.
Returned ==
    /\ pc = "idle"
    /\ call.op = "get_page_images"
    /\ outcome = "returned"

\* C1: crash recovery in probe mode.  A get_page_images call that finds the
\* directory with page images but without page_map.json (a probe run was
\* interrupted) re-runs the probe from page 1 and writes page_map.json.
C1_CrashRecoveryReprobes ==
    (/\ Returned
     /\ api_type = "replica"
     /\ edition # None
     /\ found.images
     /\ ~found.page_map)
    => /\ Len(net) > 0
       /\ net[Len(net)].kind = "image"
       /\ ImageRequest(1) \in Range(net)
       /\ disk[date].page_map_json # None

\* C2: idempotency.  A get_page_images call for a date that follows a
\* returned call for the same date issues no network request and returns
\* the list the first call returned.
C2_SecondCallIdempotent ==
    (Returned /\ prev[date] # None)
    => /\ net = <<>>
       /\ result = prev[date][1]

\* C4: archive-mode manifest degradation.  A run whose archive download
\* succeeded and whose manifest fetch or parse failed returns normally and
\* leaves a page_map.json that holds the empty list.
C4_ManifestDegradation ==
    (/\ Returned
     /\ api_type = "published"
     /\ manifest_outcome \in {"failed", "raised"})
    => disk[date].page_map_json = Some(<<>>)

\* C9: EditionDirectory invariant.  In the directory a fetcher run that
\* started without a directory leaves when it returns, the number of page
\* images is the length of the list stored in page_map.json.
C9_ImageCountIsPageMapLength ==
    (/\ Returned
     /\ ~found.exists
     /\ disk[date].exists)
    => /\ disk[date].page_map_json # None
       /\ Cardinality(disk[date].images) = Len(disk[date].page_map_json[1])

\* C10: edition index cache lifecycle.  Once a get_editions call of the
\* instance has filled the cache, a get_editions call with
\* force_refresh=false returns the cached list without a network request,
\* empty list included; a call with force_refresh=true makes a request.
C10_CacheLifecycle ==
    [][(pc = "get_editions" /\ editions_cache # None)
       => IF call.force_refresh
          THEN net' = Append(net, EditionsRequest)
          ELSE /\ net' = net
               /\ outcome' = "returned"
               /\ result' = editions_cache[1]]_vars

\* The page numbers of a returned image list are {1, ..., k}, without gaps
\* and without duplicates.
Contiguous(images) ==
    /\ Len(images) = Cardinality(Range(images))
    /\ Range(images) = 1..Len(images)

StrictlyIncreasing(images) ==
    \A i, j \in 1..Len(images) : i < j => images[i] < images[j]

\* p is the position of an element of the directory's edition.json whose
\* contenturl ends in .pdf.
PdfPosition(dir, p) ==
    /\ dir.edition_json # None
    /\ p \in 1..Len(dir.edition_json[1])
    /\ EndsWithPdf(Get(dir.edition_json[1][p], "contenturl", <<>>))

\* C3 as stated: for every date with an edition, in either mode, the page
\* numbers get_page_images returns are {1, ..., k}.
C3_ResultContiguous ==
    (Returned /\ edition # None) => Contiguous(result)

\* C3 as amended: the page numbers returned are strictly increasing; in
\* probe mode they are {1, ..., k}; in archive mode each is the position
\* (index+1) of a manifest element whose contenturl ends in .pdf, and
\* numbers may be missing in between.
C3_ResultPagesAmended ==
    (Returned /\ edition # None)
    => /\ StrictlyIncreasing(result)
       /\ api_type = "replica" => Contiguous(result)
       /\ api_type = "published"
          => \A p \in Range(result) : PdfPosition(disk[date], p)

\* C3's case: an archive-mode call returns page 2 alone.
C3_Witness ==
    /\ Returned
    /\ api_type = "published"
    /\ result = <<2>>

\* The image endpoint answers 200 with a real-sized body for pages 1..n and
\* 200 with a placeholder-sized body for every higher page.
RealThenPlaceholders(server, n) ==
    /\ n \in 0..Len(server)
    /\ \A i \in 1..Len(server) :
         /\ server[i].status = 200
         /\ (i <= n) <=> (server[i].size >= PLACEHOLDER_MAX_BYTES)

\* The probe run of the call in progress, entered without a directory.
FreshProbeRun ==
    /\ call.op = "get_page_images"
    /\ api_type = "replica"
    /\ ~found.exists
    /\ page_num >= 1

\* The probe run has left the loop and written page_map.json.
ProbeSaved ==
    \/ pc \in {"save_metadata", "images"}
    \/ Returned

C5_ProbeSavesExactlyN ==
    \A n \in 0..Len(image_server) :
        (FreshProbeRun /\ RealThenPlaceholders(image_server, n))
        => /\ pc = "probe" => page_num <= n + 1
           /\ ProbeSaved
              => /\ disk[date].images = 1..n
                 /\ disk[date].page_map_json # None
                 /\ Len(disk[date].page_map_json[1]) = n

\* C5: probe-mode termination.  Against an endpoint with N real pages and
\* placeholders after them, a probe run on a fresh directory leaves the
\* loop, having saved exactly page_001..page_N and a page_map.json of
\* length N.
C5_ProbeTerminates ==
    /\ []C5_ProbeSavesExactlyN
    /\ (pc = "probe") ~> (pc # "probe")

\* C5's case: a returned probe run against two real pages.
C5_Witness ==
    /\ Returned
    /\ FreshProbeRun
    /\ RealThenPlaceholders(image_server, 2)
    /\ disk[date].images = {1, 2}

\* An archive run of the call in progress whose manifest was fetched and
\* parsed, with every entry of the archive walked.
ParsedArchiveRun ==
    /\ Returned
    /\ api_type = "published"
    /\ manifest_outcome = "parsed"

\* The entry has the document extension and its base name without the
\* extension is the key of a record of the directory's page_map.json.
Addressed(entry, dir) ==
    /\ LowerEndsWithPdf(entry.name)
    /\ \E r \in Range(dir.page_map_json[1]) :
         r.hash = RsplitDot(Basename(entry.name))

\* The entry was written as the page of a page-map record of its key, which
\* stands at that position of the manifest, with that record's section.
WrittenAsItsRecord(entry, dir) ==
    \E r \in Range(dir.page_map_json[1]) :
        /\ r.hash = RsplitDot(Basename(entry.name))
        /\ r.page_num = entry.page
        /\ r.section = entry.section
        /\ r.pdf_name = dir.edition_json[1][r.page_num].contenturl
        /\ entry.page \in dir.images

\* C6 as stated: an archive entry is converted and written if and only if
\* it has the document extension and its key is a manifest key.
C6_WrittenIffAddressed ==
    ParsedArchiveRun
    => \A e \in Range(extract_log) :
         (e.selected /\ e.conversion = "ok") <=> Addressed(e, disk[date])

\* C6 as amended: an archive entry is handed to the converter if and only
\* if it has the document extension and its key is a manifest key; it is
\* written, as the page and with the section of a manifest entry of that
\* key, if and only if moreover the conversion yields an image; the other
\* entries leave no file.
C6_ContentAddressing ==
    ParsedArchiveRun
    => /\ \A e \in Range(extract_log) :
            /\ e.selected <=> Addressed(e, disk[date])
            /\ (e.selected /\ e.conversion = "ok")
               => WrittenAsItsRecord(e, disk[date])
       /\ disk[date].images =
            {e.page : e \in {x \in Range(extract_log) :
                                x.selected /\ x.conversion = "ok"}}

\* C6's case: manifest [abc.pdf/News, def.pdf/Sports], archive
\* {abc.pdf, xyz.pdf}: page_001 alone, tagged News.
C6_Witness ==
    /\ ParsedArchiveRun
    /\ disk[date].edition_json =
         Some(<<[contenturl |-> <<"abc", ".pdf">>, section |-> "News"],
                [contenturl |-> <<"def", ".pdf">>, section |-> "Sports"]>>)
    /\ zip_names = Some(<< <<"abc", ".pdf">>, <<"xyz", ".pdf">> >>)
    /\ disk[date].images = {1}
    /\ extract_log[1].section = "News"
    /\ ~extract_log[2].selected

\* A find_edition_by_date call has returned to its caller, and the list it
\* resolved the date against is still the instance's cache.
FindReturned ==
    /\ pc = "idle"
    /\ call.op = "find_edition_by_date"
    /\ outcome = "returned"
    /\ editions_cache # None

\* The records of the cached list with the asked date.
DateRecords(d) ==
    {i \in 1..Len(editions_cache[1]) :
        Get(editions_cache[1][i], "date", None) = strftime(d)}

\* Those of them that hold an edition.
EditionRecords(d) ==
    {i \in DateRecords(d) : Len(Get(editions_cache[1][i], "editions", <<>>)) > 0}

Least(S) == CHOOSE i \in S : \A j \in S : i <= j

\* C7 as stated: against a list with a record of the asked date the call
\* returns the first edition of that record, against a list without one it
\* returns None.
C7_DateResolves ==
    FindReturned
    => IF DateRecords(date) = {}
       THEN result = None
       ELSE /\ result # None
            /\ result[1] \in Range(editions_cache[1][Least(DateRecords(date))].editions)

\* C7 as amended: against a list with a record of the asked date that holds
\* at least one edition the call returns editions[0] of the first such
\* record; against any other list it returns None.
C7_DateResolvesAmended ==
    FindReturned
    => IF EditionRecords(date) = {}
       THEN result = None
       ELSE result =
              Some(editions_cache[1][Least(EditionRecords(date))].editions[1])

\* C7's case: the date's first record holds no edition, its second holds
\* two, and the first of these is returned.
C7_Witness ==
    /\ FindReturned
    /\ Len(editions_cache[1]) = 2
    /\ DateRecords(date) = {1, 2}
    /\ EditionRecords(date) = {2}
    /\ result = Some(FullHandle("B"))

\* C8: fetcher short-circuit.  In both modes a download_edition call that
\* finds a page image in the directory returns the directory at once, with
\* no network request and every file as it was.
C8_ShortCircuit ==
    [][(pc = "download" /\ AlreadyDownloaded(disk[date]))
       => /\ pc' = "images"
          /\ disk' = disk
          /\ net' = net]_vars

\* C8's case: the fetcher returned the directory of a call that found
\* images in it.
C8_Witness ==
    /\ pc = "images"
    /\ found.images
    /\ page_num = 0
    /\ zip_idx = 0

\* The call in progress got a non-success answer from the edition-list
\* endpoint.
EditionsErrorAnswered == editions_status \in ErrorStatuses

\* C11: edition-list fetch errors.  In both modes a get_editions,
\* find_edition_by_date or get_page_images call whose edition-list request
\* is answered with a non-success status raises to its caller, having
\* issued that one request and nothing else: no retry, no later request,
\* nothing cached.
C11_EditionsErrorRaises ==
    EditionsErrorAnswered
    => /\ pc = "idle"
       /\ outcome = "raised"
       /\ net = <<EditionsRequest>>
       /\ call.op \in {"get_editions", "find_edition_by_date", "get_page_images"}

\* C11's case: a get_page_images call in probe mode raised on a 500.
C11_Witness ==
    /\ EditionsErrorAnswered
    /\ call.op = "get_page_images"
    /\ api_type = "replica"
    /\ editions_status = 500
    /\ outcome = "raised"

\* No record of the list has date d and an edition.
NoEditionFor(list, d) ==
    \A i \in 1..Len(list) :
        ~(/\ Get(list[i], "date", None) = strftime(d)
          /\ Len(Get(list[i], "editions", <<>>)) > 0)

\* C12: orchestrator on NotFound.  A get_page_images call whose date has no
\* edition in the list returns [] there and then: no exception, no fetcher
\* run, no request besides the edition list's, the directories as they were.
C12_NotFoundReturnsEmpty ==
    [][(/\ pc = "find"
        /\ editions_status' \notin ErrorStatuses
        /\ NoEditionFor(editions_cache'[1], date))
       => /\ pc' = "idle"
          /\ outcome' = "returned"
          /\ result' = <<>>
          /\ disk' = disk
          /\ Range(net') \subseteq {EditionsRequest}
          /\ UNCHANGED run_vars]_vars

\* C12's case: the list holds an edition of another date only, and the call
\* returned without a directory.
C12_Witness ==
    /\ Returned
    /\ edition = None
    /\ Len(server_editions) = 1
    /\ editions_cache # None
    /\ editions_cache[1] # <<>>
    /\ NoEditionFor(editions_cache[1], date)
    /\ net = <<EditionsRequest>>
    /\ ~disk[date].exists

\* The page numbers parsed from the names of a list of images.
ParsedNumbers(list) == [i \in 1..Len(list) |-> int(StemDigits(list[i]))]

\* C13: result ordering.  Whatever page images the directory holds and in
\* whatever order the filesystem lists them, the sorted list holds those
\* images, each once, strictly increasing in the page number parsed from
\* the name: the page numbers of the directory in ascending order.
C13_SortedByPageNumber ==
    sorted_images # None
    => /\ Len(sorted_images[1]) = Len(glob_listing)
       /\ Range(sorted_images[1]) = Range(glob_listing)
       /\ StrictlyIncreasing(ParsedNumbers(sorted_images[1]))
       /\ ParsedNumbers(sorted_images[1])
            = SortedPages(Range(ParsedNumbers(glob_listing)))

\* C13's case: page_1000 listed before page_999 and page_100.
C13_Witness ==
    /\ glob_listing = <<PageName(1000), PageName(999), PageName(100)>>
    /\ sorted_images = Some(<<PageName(100), PageName(999), PageName(1000)>>)

\* The handle lacks the identifier its mode downloads by.
MissingIdentifier ==
    IF api_type = "replica"
    THEN Get(edition[1], "editionGuid", "") = ""
    ELSE Get(edition[1], "zip", "") = ""

\* C14: missing identifier.  In both modes a fetcher that finds no page
\* image in the directory and no identifier on the handle returns no
\* directory: get_page_images returns [] without an exception, and the
\* fetcher has issued no request, created no directory and written nothing.
C14_MissingIdentifierSkips ==
    [][(/\ pc = "download"
        /\ ~AlreadyDownloaded(disk[date])
        /\ MissingIdentifier)
       => /\ pc' = "idle"
          /\ outcome' = "returned"
          /\ result' = <<>>
          /\ disk' = disk
          /\ net' = net
          /\ UNCHANGED run_vars]_vars

\* C14's case: an archive-mode handle without a zip URL, a call that
\* returned, and no directory.
C14_Witness ==
    /\ Returned
    /\ api_type = "published"
    /\ edition = Some(NoZipHandle("A"))
    /\ net = <<EditionsRequest>>
    /\ disk[date] = NoDir

\* The ads of the dates process_date returned for, each with its date, in
\* the order of the dates.
RECURSIVE SucceededAds(_)
SucceededAds(log) ==
    IF log = <<>> THEN <<>>
    ELSE SucceededAds(SubSeq(log, 1, Len(log) - 1))
         \o Stamped(log[Len(log)].ads, strftime(log[Len(log)].date))

\* The rows main() is to report: with --clients-only, those of a client.
ExpectedRows ==
    IF clients_only
    THEN SelectSeq(SucceededAds(processed), LAMBDA ad :
             \/ In(<<"acme">>, lower(ad.advertiser))
             \/ In(lower(ad.advertiser), <<"acme", "corp", "inc">>))
    ELSE SucceededAds(processed)

\* C15: batch isolation.  Whatever call raises inside process_date for a
\* date, the loop of main() goes on: each date is taken once and in order,
\* every exception is notified with its date, and when main() ends every
\* date of the run was processed and the report holds the ads of the dates
\* that succeeded.
C15_BatchIsolation ==
    /\ Len(processed) \in {date_idx, date_idx - 1}
    /\ \A i \in 1..Len(processed) : processed[i].date = dates[i]
    /\ Len(emails) = Cardinality({i \in 1..Len(processed) : processed[i].raised})
    /\ main_pc \in {"report", "done"} => Len(processed) = Len(dates)
    /\ main_pc = "done"
       => /\ all_ads = ExpectedRows
          /\ ExpectedRows # <<>> => report = Some(ExpectedRows)

\* C15's case: the first of three dates raised in get_page_images, the
\* second in upload_edition, and the third date's ad is reported.
C15_Witness ==
    /\ main_pc = "done"
    /\ Len(dates) = 3
    /\ processed[1].raised /\ processed[1].at = "get_page_images"
    /\ processed[2].raised /\ processed[2].at = "upload_edition"
    /\ ~processed[3].raised
    /\ report = Some(<<[page |-> 2, advertiser |-> <<"Bolt">>,
                        date |-> strftime(3)]>>)

\* A probe run of the call in progress, or what it left.
ProbeRun ==
    /\ call.op = "get_page_images"
    /\ api_type = "replica"
    /\ page_num >= 1

\* The response is not a page: a status other than 200, or a body of less
\* than 15000 bytes.
NotAPage(response) == response.status # 200 \/ response.size < 15000

\* The first page number the endpoint answers with something not a page.
FirstNotAPage(server) ==
    CHOOSE k \in 1..(Len(server) + 1) :
        /\ NotAPage(ImageResponse(server, k))
        /\ \A j \in 1..(k - 1) : ~NotAPage(ImageResponse(server, j))

\* C16: probe stop predicate.  For every sequence of responses of the
\* image endpoint, with k the first page number answered by a non-200
\* status or a body of less than 15000 bytes: the loop saves pages in order
\* and never goes past k, it leaves at k with pages 1..k-1 and only those
\* saved, and every saved page was answered 200 with at least 15000 bytes.
C16_ProbeStopsAtFirstNotAPage ==
    ProbeRun
    => LET k == FirstNotAPage(image_server)
       IN  /\ page_num <= k
           /\ disk[date].images = 1..(page_num - 1)
           /\ pc \in {"save_page_map", "save_metadata", "images"} \/ Returned
              => /\ page_num = k
                 /\ disk[date].images = 1..(k - 1)
                 /\ net[Len(net)] = ImageRequest(k)
           /\ \A p \in 1..Len(image_server) :
                 (/\ p < k
                  /\ image_server[p] = [status |-> 200, size |-> 15000]
                  /\ page_num > p)
                 => p \in disk[date].images

\* C16's case: a page of exactly 15000 bytes, then one of 14999: the run
\* returned page 1 alone.
C16_Witness ==
    /\ Returned
    /\ ProbeRun
    /\ image_server = <<[status |-> 200, size |-> 15000],
                        [status |-> 200, size |-> 14999]>>
    /\ result = <<1>>
    /\ disk[date].images = {1}

\* C17: archive-mode artifact persistence.  An archive-mode run that got
\* past the archive download and returned leaves page_map.json (possibly
\* an empty list) and metadata.json, the handle as it was, with or without
\* an editionLink, whatever matched and whatever conversion failed.
C17_ArtifactsPersisted ==
    (/\ Returned
     /\ api_type = "published"
     /\ manifest_outcome # "none")
    => /\ disk[date].page_map_json # None
       /\ disk[date].metadata_json = edition

\* An archive entry that matched and whose conversion raised or gave no
\* image.
ConversionFailed(e) == e.selected /\ e.conversion \in {"empty", "raises"}

\* The walk of the archive has taken one more entry.
WalkedOne == Len(extract_log') = Len(extract_log) + 1

\* What an archive-mode run that walked its archive holds when the call
\* returns: every entry of the archive was taken, in order, every matched
\* entry that converted has its image, and metadata.json is the handle.
WalkCompleted ==
    (/\ Returned
     /\ api_type = "published"
     /\ zip_idx >= 1)
    => /\ Len(extract_log) = Len(zip_names[1])
       /\ \A i \in 1..Len(extract_log) :
            /\ extract_log[i].name = zip_names[1][i]
            /\ extract_log[i].selected = Selected(zip_names[1][i], page_map)
            /\ (extract_log[i].selected /\ extract_log[i].conversion = "ok")
               => extract_log[i].page \in disk[date].images
       /\ disk[date].metadata_json = edition

\* C18: per-entry conversion failure isolation.  A matched archive entry
\* whose conversion raises or yields no image writes nothing and ends
\* nothing: the walk goes on with the next entry, no exception leaves the
\* fetcher, every other matched entry is converted and written, and
\* metadata.json is written.
C18_ConversionFailureIsolated ==
    /\ [][(pc = "extract" /\ WalkedOne
           /\ ConversionFailed(extract_log'[Len(extract_log')]))
          => /\ disk' = disk
             /\ pc' = "extract"
             /\ outcome' = "running"]_vars
    /\ []((\E i \in 1..Len(extract_log) : ConversionFailed(extract_log[i]))
          => outcome # "raised")
    /\ []WalkCompleted

\* C18's case: the first of two matched entries raised in the conversion,
\* the second was written, and the run returned with metadata.json.
C18_Witness ==
    /\ Returned
    /\ api_type = "published"
    /\ Len(extract_log) = 2
    /\ extract_log[1].selected /\ extract_log[1].conversion = "raises"
    /\ extract_log[2].selected /\ extract_log[2].conversion = "ok"
    /\ extract_log[1].page # extract_log[2].page
    /\ disk[date].images = {extract_log[2].page}
    /\ disk[date].metadata_json = edition

\* C19: probe-mode artifact ordering.  In a probe run on a fresh directory
\* neither page_map.json nor metadata.json exists while the loop requests
\* and saves pages, page_map.json is there before metadata.json, and a run
\* killed in the loop leaves the images it saved without a page map.
C19_ArtifactsAfterLoop ==
    /\ []((FreshProbeRun /\ pc = "probe")
          => /\ disk[date].page_map_json = None
             /\ disk[date].metadata_json = None)
    /\ []((FreshProbeRun /\ disk[date].metadata_json # None)
          => disk[date].page_map_json # None)
    /\ [][(FreshProbeRun /\ pc = "probe" /\ pc' = "idle")
          => /\ outcome' = "interrupted"
             /\ disk' = disk
             /\ disk'[date].page_map_json = None]_vars

\* C19's case: a run killed after it saved page 1, with page 2 of the
\* edition still to come: an image and no page map.
C19_Witness ==
    /\ FreshProbeRun
    /\ outcome = "interrupted"
    /\ page_num = 2
    /\ ~NotAPage(ImageResponse(image_server, 2))
    /\ disk[date].images = {1}
    /\ disk[date].page_map_json = None
    /\ disk[date].metadata_json = None

\* The page map of a probe run that saved n pages.
ProbePageMap(n) ==
    [i \in 1..n |->
        [page_num |-> i, section |-> "Unknown", hash |-> <<>>,
         pdf_name |-> <<>>]]

\* C20: probe-mode page records.  Once a probe run has written
\* page_map.json, with N the number of pages it saved, the images are
\* page 1..N and page_map.json is the list of N records numbered 1..N in
\* order, each with section "Unknown", an empty hash and an empty pdf_name.
C20_ProbePageRecords ==
    (ProbeRun /\ (pc \in {"save_metadata", "images"} \/ Returned))
    => LET n == Cardinality(disk[date].images)
       IN  /\ disk[date].images = 1..n
           /\ n = page_num - 1
           /\ disk[date].page_map_json = Some(ProbePageMap(n))

\* C20's case: a returned probe run that saved two pages.
C20_Witness ==
    /\ Returned
    /\ ProbeRun
    /\ result = <<1, 2>>
    /\ Len(disk[date].page_map_json[1]) = 2
    /\ disk[date].page_map_json[1][2].page_num = 2

\* The record the element at position p of the pages array yields.
RecordOfPosition(pages, p) ==
    [page_num |-> p,
     section |-> IF "section" \in DOMAIN pages[p] THEN pages[p].section
                 ELSE "Unknown",
     hash |-> SelectSeq(pages[p].contenturl, LAMBDA part : part # ".pdf"),
     pdf_name |-> pages[p].contenturl]

\* C21: manifest page numbering.  In an archive-mode run whose manifest was
\* parsed, page_map.json holds one record per element of the pages array
\* whose contenturl ends in .pdf and none for the others, each numbered by
\* the position of its element counting every element, in array order: the
\* numbers are strictly increasing and may skip; a record takes the section
\* of its element, "Unknown" when it has none.
C21_NumberedByPosition ==
    (/\ api_type = "published"
     /\ manifest_outcome = "parsed")
    => LET pages == disk[date].edition_json[1]
           pm == disk[date].page_map_json[1]
       IN  /\ pm = page_map
           /\ {pm[i].page_num : i \in 1..Len(pm)}
                = {p \in 1..Len(pages) : PdfPosition(disk[date], p)}
           /\ \A i \in 1..Len(pm) :
                 pm[i] = RecordOfPosition(pages, pm[i].page_num)
           /\ \A i, j \in 1..Len(pm) :
                 i < j => pm[i].page_num < pm[j].page_num

\* C21's case: a pages array of an image and a document without section:
\* one record, numbered 2, of section "Unknown".
C21_Witness ==
    /\ api_type = "published"
    /\ manifest_outcome = "parsed"
    /\ disk[date].edition_json =
         Some(<<[contenturl |-> <<"img", ".jpg">>, section |-> "News"],
                [contenturl |-> <<"def", ".pdf">>]>>)
    /\ disk[date].page_map_json =
         Some(<<[page_num |-> 2, section |-> "Unknown", hash |-> <<"def">>,
                 pdf_name |-> <<"def", ".pdf">>]>>)

\* The first ten characters of the publishDate of a raw record, empty
\* when it has none.
DateKey(raw) ==
    IF "publishDate" \notin DOMAIN raw THEN <<>>
    ELSE [i \in 1..(IF Len(raw.publishDate) < 10 THEN Len(raw.publishDate)
                     ELSE 10) |-> raw.publishDate[i]]

\* The list the raw records normalize to: one record each, in order.
Normalized(raw) ==
    [i \in 1..Len(raw) |->
        [date |-> DateKey(raw[i]),
         editions |-> <<[editionGuid |-> raw[i].editionGuid,
                         name |-> raw[i].name]>>]]

\* The raw records of the list whose date key is the asked date.
RawOfDate(raw, d) == {i \in 1..Len(raw) : DateKey(raw[i]) = strftime(d)}

\* C22: probe-mode edition-list normalization.  The list a probe-mode
\* get_editions fetches is, record by record and in order, {date: first
\* ten characters of publishDate, editions: [{editionGuid, name}]}, and
\* find_edition_by_date on it returns editions[0] of the first record of
\* the asked date, None when there is none.
C22_ReplicaNormalized ==
    [][(/\ api_type = "replica"
        /\ pc \in {"get_editions", "find_edition_by_date"}
        /\ editions_status' = 200)
       => /\ editions_cache' = Some(Normalized(server_editions))
          /\ pc = "get_editions" => result' = Normalized(server_editions)
          /\ pc = "find_edition_by_date"
             => result' =
                  IF RawOfDate(server_editions, date) = {} THEN None
                  ELSE Some(Normalized(server_editions)
                              [Least(RawOfDate(server_editions, date))]
                              .editions[1])]_vars

\* C22's case: the asked date's record stands second, with a time after
\* its date, and its edition is returned.
C22_Witness ==
    /\ FindReturned
    /\ api_type = "replica"
    /\ editions_status = 200
    /\ Len(server_editions) = 2
    /\ editions_cache = Some(Normalized(server_editions))
    /\ server_editions[2].publishDate = strftime(1) \o TimePart
    /\ RawOfDate(server_editions, date) = {2}
    /\ result = Some([editionGuid |-> "guid", name |-> "A"])

\* The page numbers of the image requests of the call, in the order issued.
ImagePagesRequested ==
    LET reqs == SelectSeq(net, LAMBDA r : r.kind = "image")
    IN  [i \in 1..Len(reqs) |-> reqs[i].page]

\* C23: sequential probing.  The image requests of a probe run are for
\* pages 1, 2, 3, ... in that order, none skipped or repeated; when the
\* loop is about to ask for page p every page before p was asked for and
\* written, and each step of the loop issues the one request for its page.
C23_SequentialProbing ==
    /\ [](ProbeRun
          => /\ \A i \in 1..Len(ImagePagesRequested) :
                   ImagePagesRequested[i] = i
             /\ pc = "probe"
                => /\ Len(ImagePagesRequested) = page_num - 1
                   /\ disk[date].images = 1..(page_num - 1)
             /\ pc \in {"save_page_map", "save_metadata", "images"}
                => /\ Len(ImagePagesRequested) = page_num
                   /\ disk[date].images = 1..(page_num - 1))
    /\ [][pc = "probe" /\ pc' # "idle"
          => /\ net' = Append(net, [kind |-> "image", page |-> page_num])
             /\ page_num' \in {page_num, page_num + 1}
             /\ page_num' = page_num + 1
                => disk'[date].images = disk[date].images \cup {page_num}]_vars

\* C23's case: two pages saved and the third request answered by a
\* placeholder.
C23_Witness ==
    /\ Returned
    /\ ProbeRun
    /\ ImagePagesRequested = <<1, 2, 3>>
    /\ disk[date].images = {1, 2}

\* C24: analysis coverage.  Every page image of the non-empty list
\* get_page_images returned is given to the ad detector by process_date,
\* whether or not page_map.json exists and whatever it holds.
C24_EveryImageAnalysed ==
    (analysed # None /\ result # <<>>)
    => Range(analysed[1]) = Range(result)

\* The ads of the list with the page, as (advertiser, position) pairs.
AdsOfPage(ads, page) ==
    LET page_ads == SelectSeq(ads, LAMBDA a : a.page = page)
    IN  {<<page_ads[i].advertiser, i>> : i \in 1..Len(page_ads)}

\* The rows of the ads table of a page, as (advertiser, position) pairs.
RowsOfPage(page_id) ==
    {<<r.advertiser, r.n>> : r \in {x \in ads_table : x.page_id = page_id}}

\* C25: upload replaces ads per page.  After an upload_edition call, for
\* every page image of the edition the ads table holds exactly the ads of
\* the call's all_ads of that page, none when it has none, whatever
\* uploads went before.
C25_UploadReplacesAds ==
    upload_call # None
    => \A n \in upload_call[1].images :
         RowsOfPage([paper_id |-> upload_call[1].paper,
                     date |-> upload_call[1].date, page_num |-> n])
           = AdsOfPage(upload_call[1].all_ads, n)

\* C29: per-paper ad count consistency.  After every sequence of
\* upload_edition calls, ad_count of each (advertiser, paper) row is the
\* number of rows of the ads table linked to the advertiser on pages of
\* the paper, and every such pair with an ad has a row.
C29_AdCountMatchesAds ==
    /\ \A row \in advertiser_papers :
         row.ad_count =
           Cardinality({r \in ads_table :
                          /\ r.advertiser_id = Some(row.advertiser_id)
                          /\ r.page_id.paper_id = row.paper_id})
    /\ \A r \in ads_table :
         r.advertiser_id # None
         => \E row \in advertiser_papers :
              /\ row.advertiser_id = r.advertiser_id[1]
              /\ row.paper_id = r.page_id.paper_id

\* The call in progress got a non-success answer to its archive request.
ZipErrorAnswered == zip_status \in ErrorStatuses

\* C26: archive download failure leaves no trace.  An archive-mode call
\* whose zip request is answered with a non-success status raises to the
\* caller of get_page_images with the zip request its last request, no
\* manifest request made, and the disk as it was before the request: a
\* directory that was not there is not created.
C26_ZipErrorLeavesNoTrace ==
    /\ [](ZipErrorAnswered
          => /\ pc = "idle"
             /\ call.op = "get_page_images"
             /\ outcome = "raised"
             /\ api_type = "published"
             /\ net[Len(net)] = [kind |-> "zip", page |-> 0]
             /\ \A i \in 1..Len(net) : net[i].kind \in {"editions", "zip"}
             /\ ~found.exists => disk[date] = NoDir)
    /\ [][(ZipErrorAnswered') /\ ~ZipErrorAnswered => disk' = disk]_vars

\* C26's case: a 500 for the archive of a date without directory.
C26_Witness ==
    /\ ZipErrorAnswered
    /\ zip_status = 500
    /\ outcome = "raised"
    /\ net = <<EditionsRequest, ZipRequest>>
    /\ disk[date] = NoDir

\* C27: failed refresh keeps the cache.  A get_editions call whose request
\* is answered with a non-success status leaves editions_cache as it was,
\* and a get_editions call without force_refresh that follows a failed
\* request on a filled cache returns the cached list.
C27_FailedRefreshKeepsCache ==
    /\ [][(pc = "get_editions" /\ editions_status' \in ErrorStatuses)
          => editions_cache' = editions_cache]_vars
    /\ [][(/\ pc = "get_editions"
           /\ ~call.force_refresh
           /\ refresh_failed
           /\ editions_cache # None)
          => /\ outcome' = "returned"
             /\ result' = editions_cache[1]]_vars

\* A record of the cached list that find_edition_by_date passes over: it
\* has another date, or it has no editions key or an empty editions list.
PassedOver(i, d) ==
    \/ Get(editions_cache[1][i], "date", None) # strftime(d)
    \/ "editions" \notin DOMAIN editions_cache[1][i]
    \/ editions_cache[1][i].editions = <<>>

\* C30: empty date records do not hide later ones.  A returned
\* find_edition_by_date call gives editions[0] of a record of the asked
\* date with a non-empty editions list before which every record is passed
\* over, and gives None only when every record of the list is passed over.
C30_EmptyRecordsPassedOver ==
    FindReturned
    => \/ /\ result = None
          /\ \A i \in 1..Len(editions_cache[1]) : PassedOver(i, date)
       \/ \E i \in 1..Len(editions_cache[1]) :
             /\ ~PassedOver(i, date)
             /\ \A j \in 1..(i - 1) : PassedOver(j, date)
             /\ result = Some(editions_cache[1][i].editions[1])

\* C30's case: the first record of the asked date has no editions key, the
\* second holds an edition, and that edition is returned.
C30_Witness ==
    /\ FindReturned
    /\ Len(editions_cache[1]) = 2
    /\ editions_cache[1][1] = [date |-> strftime(date)]
    /\ ~PassedOver(2, date)
    /\ result = Some(editions_cache[1][2].editions[1])

\* The document of the page-map record is in the archive and converted:
\* an entry of the record's key was walked and its conversion gave an image.
DocumentConverted(r) ==
    \E i \in 1..Len(extract_log) :
        /\ extract_log[i].selected
        /\ extract_log[i].conversion = "ok"
        /\ RsplitDot(Basename(extract_log[i].name)) = r.hash

\* C28: one image per page-map record under duplicate keys.  When an
\* archive-mode run that parsed its manifest returns, every record of the
\* page map whose document was in the archive and converted has the image
\* of its page number in the directory, also when two records share a key.
C28_ImagePerRecord ==
    ParsedArchiveRun
    => \A i \in 1..Len(page_map) :
          DocumentConverted(page_map[i])
          => page_map[i].page_num \in disk[date].images

====
